---- MODULE Spec2Model ----
(***************************************************************************)
(* SimpleActionServer (actionlib, simple_action_server.py): the single     *)
(* goal policy on top of the ActionServer transport.                       *)
(*                                                                         *)
(* Threads: the transport thread delivers goals and preempt tokens         *)
(* (internal_goal_callback, internal_preempt_callback); with an execute    *)
(* callback the worker thread runs executeLoop and the execute routine;    *)
(* without one (polling configuration) the application thread calls        *)
(* accept_new_goal and the status operations itself.                       *)
(*                                                                         *)
(* The ServerGoalHandle and the ActionServer are not part of the file;     *)
(* their operations are modelled from the specification (section 3, 6).    *)
(* rospy.is_shutdown() (process lifecycle) is left to the environment.     *)
(***************************************************************************)
EXTENDS Naturals, FiniteSets

\* Number of goals the transport submits, and the range of their stamps.
MaxGoals == 3
MaxStamp == 3

Goals == 1..MaxGoals
Stamps == 1..MaxStamp
\* The handle ServerGoalHandle() built by the constructor holds no goal.
NullHandle == 0

Active == {"ACTIVE", "PREEMPTING"}
Terminal == {"SUCCEEDED", "ABORTED", "PREEMPTED"}
\* "NONE": the goal has not been submitted yet.
Status == {"NONE", "PENDING"} \cup Active \cup Terminal

VARIABLES
    status,                   \* status of every goal handle
    stamp,                    \* stamp of the goals held in a slot (0 for the others)
    current_goal,             \* self.current_goal
    next_goal,                \* self.next_goal
    new_goal,                 \* self.new_goal
    preempt_request,          \* self.preempt_request
    new_goal_preempt_request, \* self.new_goal_preempt_request
    execute_callback,         \* an execute routine was given to __init__
    goal_callback,            \* a goal callback is registered
    preempt_callback,         \* a preempt callback is registered
    need_to_terminate,        \* self.need_to_terminate
    lock_owner,               \* thread holding self.lock between steps
    notified,                 \* execute_condition.notify() reached the waiter
    wpc,                      \* position of the worker in executeLoop
    goal,                     \* executeLoop's local: what accept returned
    cpc,                      \* position of the polling caller in accept_new_goal
    checked,                  \* is_preempt_requested() was called since the last accept
    preempt_delivered,        \* goals held in a slot that a preempt token was delivered for
    cb_calls                  \* callbacks the last transport handler invoked

vars == <<status, stamp, current_goal, next_goal, new_goal, preempt_request,
          new_goal_preempt_request, execute_callback, goal_callback,
          preempt_callback, need_to_terminate, lock_owner, notified, wpc, goal,
          cpc, checked, preempt_delivered, cb_calls>>

\* The goal slots and flags every operation works on.
slots == <<status, current_goal, next_goal, new_goal, preempt_request,
           new_goal_preempt_request>>

S == [status |-> status, current_goal |-> current_goal, next_goal |-> next_goal,
      new_goal |-> new_goal, preempt_request |-> preempt_request,
      new_goal_preempt_request |-> new_goal_preempt_request]

\* The goals the server still refers to.
Held(s) == {s.current_goal, s.next_goal} \ {NullHandle}

\* The server reads the stamp of no goal but those in its slots: the stamps
\* and tokens of the goals it dropped are not kept.
KeepHeld(s, stmp, tokens) ==
    /\ stamp' = [g \in Goals |-> IF g \in Held(s) THEN stmp[g] ELSE 0]
    /\ preempt_delivered' = tokens \cap Held(s)

Install(s) ==
    /\ status' = s.status
    /\ current_goal' = s.current_goal
    /\ next_goal' = s.next_goal
    /\ new_goal' = s.new_goal
    /\ preempt_request' = s.preempt_request
    /\ new_goal_preempt_request' = s.new_goal_preempt_request

----------------------------------------------------------------------------
(* ServerGoalHandle (specification, sections 3 and 6).                     *)

\* get_goal(): a handle holds a goal unless it is the null handle.
get_goal(h) == h # NullHandle

\* Two handles are equal when both hold a goal and it is the same goal.
HandleEq(a, b) == get_goal(a) /\ get_goal(b) /\ a = b

Transition(st, h, from, to) ==
    IF get_goal(h) /\ st[h] \in from THEN [st EXCEPT ![h] = to] ELSE st

set_accepted(st, h) == Transition(st, h, {"PENDING"}, "ACTIVE")
set_canceled(st, h) == Transition(st, h, {"PENDING"} \cup Active, "PREEMPTED")
set_succeeded(st, h) == Transition(st, h, Active, "SUCCEEDED")
set_aborted(st, h) == Transition(st, h, Active, "ABORTED")
\* The transport marks an active goal PREEMPTING when a cancel request names it.
set_cancel_requested(st, h) == Transition(st, h, {"ACTIVE"}, "PREEMPTING")

----------------------------------------------------------------------------
(* Queries.                                                                *)

is_active(s) ==
    IF ~get_goal(s.current_goal) THEN FALSE
    ELSE s.status[s.current_goal] \in {"ACTIVE", "PREEMPTING"}

is_new_goal_available(s) == s.new_goal

is_preempt_requested(s) == s.preempt_request

\* threading.RLock: a thread acquires the lock when it is free or its own.
CanAcquire(thread) == lock_owner \in {"none", thread}

----------------------------------------------------------------------------
(* accept_new_goal, statement by statement.  Only the availability check   *)
(* runs inside "with self.lock"; the statements after it run without the   *)
(* lock unless the calling thread already holds it.                        *)

\* Line 119 without the test of self.new_goal.
AcceptAvailableIfNext(s) == get_goal(s.next_goal)

\* line 119: a new goal is available
AcceptAvailable(s) == s.new_goal /\ get_goal(s.next_goal)

\* A port that forgets lines 124-125.
AcceptKeepsCurrent(s) == s

\* lines 124-125: send a preempted message for the goal currently pursued
AcceptCancelCurrent(s) ==
    IF is_active(s) /\ get_goal(s.current_goal)
       /\ ~HandleEq(s.current_goal, s.next_goal)
    THEN [s EXCEPT !.status = set_canceled(s.status, s.current_goal)]
    ELSE s

\* line 130
AcceptPromote(s) == [s EXCEPT !.current_goal = s.next_goal]

\* line 131
AcceptClearNewGoal(s) == [s EXCEPT !.new_goal = FALSE]

\* A port that forgets line 134.
AcceptDropsDeferredPreempt(s) == s

\* line 134
AcceptPropagatePreempt(s) ==
    [s EXCEPT !.preempt_request = s.new_goal_preempt_request]

\* line 135
AcceptResetNextPreempt(s) == [s EXCEPT !.new_goal_preempt_request = FALSE]

\* line 138
AcceptSetActive(s) ==
    [s EXCEPT !.status = set_accepted(s.status, s.current_goal)]

\* The whole call, as it runs for a thread that holds the lock throughout.
accept_new_goal(s) ==
    IF ~AcceptAvailable(s) THEN s
    ELSE AcceptSetActive(AcceptResetNextPreempt(AcceptPropagatePreempt(
             AcceptClearNewGoal(AcceptPromote(AcceptCancelCurrent(s))))))

\* lines 121, 140: what the call returns
AcceptResult(s) ==
    IF ~AcceptAvailable(s) THEN NullHandle ELSE accept_new_goal(s).current_goal

----------------------------------------------------------------------------
(* Status operations on the current goal.                                  *)

\* lines 169-177
SetSucceeded(s) == [s EXCEPT !.status = set_succeeded(s.status, s.current_goal)]

\* A port that writes the status itself instead of asking the handle.
SetAbortedUnasked(s) ==
    IF get_goal(s.current_goal)
    THEN [s EXCEPT !.status[s.current_goal] = "ABORTED"]
    ELSE s

\* lines 179-187
SetAborted(s) == [s EXCEPT !.status = set_aborted(s.status, s.current_goal)]

\* lines 200-209
SetPreempted(s) == [s EXCEPT !.status = set_canceled(s.status, s.current_goal)]

StatusCall(kind, s) ==
    CASE kind = "succeeded" -> SetSucceeded(s)
      [] kind = "aborted" -> SetAborted(s)
      [] OTHER -> SetPreempted(s)

StatusKinds == {"succeeded", "aborted", "preempted"}

----------------------------------------------------------------------------
(* internal_goal_callback                                                  *)

\* Lines 246-247 without the second test: the stamp of next is not looked at.
StampIsNewerThanCurrent(s, stmp, g) ==
    ~get_goal(s.current_goal) \/ stmp[g] > stmp[s.current_goal]

\* Lines 246-247 with >= for >: a tie is admitted.
StampIsNotOlder(s, stmp, g) ==
    /\ (~get_goal(s.current_goal) \/ stmp[g] >= stmp[s.current_goal])
    /\ (~get_goal(s.next_goal) \/ stmp[g] >= stmp[s.next_goal])

\* lines 246-247: the stamp is past that of the current and the next goal
StampIsNewer(s, stmp, g) ==
    /\ (~get_goal(s.current_goal) \/ stmp[g] > stmp[s.current_goal])
    /\ (~get_goal(s.next_goal) \/ stmp[g] > stmp[s.next_goal])

\* A port that forgets lines 249-250.
DropNextSilently(s) == s

\* Line 249 with == for !=.
BumpNextIfCurrent(s) ==
    IF get_goal(s.next_goal)
       /\ (~get_goal(s.current_goal) \/ HandleEq(s.next_goal, s.current_goal))
    THEN [s EXCEPT !.status = set_canceled(s.status, s.next_goal)]
    ELSE s

\* lines 249-250: the next goal gets bumped
BumpNext(s) ==
    IF get_goal(s.next_goal)
       /\ (~get_goal(s.current_goal) \/ ~HandleEq(s.next_goal, s.current_goal))
    THEN [s EXCEPT !.status = set_canceled(s.status, s.next_goal)]
    ELSE s

\* lines 252-254
InstallNext(s, g) ==
    [s EXCEPT !.next_goal = g, !.new_goal = TRUE,
              !.new_goal_preempt_request = FALSE]

\* lines 257-258
PreemptCurrentIfActive(s) ==
    IF is_active(s) THEN [s EXCEPT !.preempt_request = TRUE] ELSE s

\* lines 272: the goal has already been preempted by a different goal
RejectGoal(s, g) == [s EXCEPT !.status = set_canceled(s.status, g)]

\* The slots after the handler ran for goal g (lines 246-273).
GoalCallbackSlots(s, stmp, g) ==
    IF StampIsNewer(s, stmp, g)
    THEN PreemptCurrentIfActive(InstallNext(BumpNext(s), g))
    ELSE RejectGoal(s, g)

\* lines 260-261, 264-265: the user callbacks the handler invokes, in order;
\* raiser names the callback that raises ("none": neither does).
GoalCallbackCalls(s, stmp, g, pcb, gcb, raiser) ==
    IF ~StampIsNewer(s, stmp, g) THEN {}
    ELSE LET p == pcb /\ is_active(InstallNext(BumpNext(s), g))
             q == gcb /\ ~(p /\ raiser = "preempt")
         IN  (IF p THEN {"preempt"} ELSE {}) \cup (IF q THEN {"goal"} ELSE {})

\* A user callback raised inside the try block.
GoalCallbackRaised(calls, raiser) == raiser \in calls

\* line 274: "except e" names no exception class, so a raised callback ends
\* the handler with a NameError before the release of line 276 is reached.
ExceptClauseReleases == FALSE

\* lines 268-269, 273, 276: the lock after the handler ends
LockAfterGoalCallback(owner, raised) ==
    IF raised /\ ~ExceptClauseReleases THEN "transport" ELSE owner

Raisers == {"none", "preempt", "goal"}

\* The transport stamps goal g and hands it to internal_goal_callback.
InternalGoalCallback(g, t, raiser) ==
    /\ status[g] = "NONE"
    /\ \A h \in Goals : h < g => status[h] # "NONE"
    /\ CanAcquire("transport")
    /\ LET stmp == [stamp EXCEPT ![g] = t]
           s0 == [S EXCEPT !.status[g] = "PENDING"]
           calls == GoalCallbackCalls(s0, stmp, g, preempt_callback,
                                      goal_callback, raiser)
           raised == GoalCallbackRaised(calls, raiser)
       IN  \* only a callback that is invoked can raise
           /\ raiser = "none" \/ raised
           /\ Install(GoalCallbackSlots(s0, stmp, g))
           /\ KeepHeld(GoalCallbackSlots(s0, stmp, g), stmp, preempt_delivered)
           /\ cb_calls' = calls
           /\ lock_owner' = LockAfterGoalCallback(lock_owner, raised)
           \* line 268: notify() wakes the worker if it waits
           /\ notified' = IF StampIsNewer(s0, stmp, g) /\ ~raised
                             /\ wpc = "waiting"
                          THEN TRUE ELSE notified
    /\ UNCHANGED <<execute_callback, goal_callback, preempt_callback,
                   need_to_terminate, wpc, goal, cpc, checked>>

----------------------------------------------------------------------------
(* internal_preempt_callback                                               *)

\* Line 294 with "if" for "elif": both tests are made.
PreemptCallbackSlotsBoth(s, preempt) ==
    [s EXCEPT !.preempt_request =
                  s.preempt_request \/ HandleEq(preempt, s.current_goal),
              !.new_goal_preempt_request =
                  s.new_goal_preempt_request \/ HandleEq(preempt, s.next_goal)]

\* lines 286-296
PreemptCallbackSlots(s, preempt) ==
    IF HandleEq(preempt, s.current_goal)
    THEN [s EXCEPT !.preempt_request = TRUE]
    ELSE IF HandleEq(preempt, s.next_goal)
         THEN [s EXCEPT !.new_goal_preempt_request = TRUE]
         ELSE s

\* lines 291-292
PreemptCallbackCalls(s, preempt, pcb) ==
    IF HandleEq(preempt, s.current_goal) /\ pcb THEN {"preempt"} ELSE {}

\* A preempt token for a submitted goal reaches internal_preempt_callback.
\* A raising preempt callback leaves "with self.lock" and releases it.
InternalPreemptCallback(preempt) ==
    /\ status[preempt] # "NONE"
    /\ CanAcquire("transport")
    /\ Install(PreemptCallbackSlots(S, preempt))
    /\ cb_calls' = PreemptCallbackCalls(S, preempt, preempt_callback)
    /\ KeepHeld(S, stamp, preempt_delivered \cup {preempt})
    /\ UNCHANGED <<execute_callback, goal_callback, preempt_callback,
                   need_to_terminate, lock_owner, notified, wpc, goal, cpc,
                   checked>>

\* The transport marks an active goal PREEMPTING (ActionServer, outside the
\* lock of the SimpleActionServer).
TransportCancelRequested(g) ==
    /\ status[g] = "ACTIVE"
    /\ status' = set_cancel_requested(status, g)
    /\ UNCHANGED <<stamp, current_goal, next_goal, new_goal, preempt_request,
                   new_goal_preempt_request, execute_callback, goal_callback,
                   preempt_callback, need_to_terminate, lock_owner, notified,
                   wpc, goal, cpc, checked, preempt_delivered, cb_calls>>

----------------------------------------------------------------------------
(* Registration and teardown.                                              *)

\* register_goal_callback without the test of line 216.
RegisterGoalCallbackAlways ==
    /\ goal_callback' = TRUE
    /\ UNCHANGED <<status, stamp, current_goal, next_goal, new_goal,
                   preempt_request, new_goal_preempt_request, execute_callback,
                   preempt_callback, need_to_terminate, lock_owner, notified,
                   wpc, goal, cpc, checked, preempt_delivered, cb_calls>>

\* lines 211-219
RegisterGoalCallback ==
    /\ goal_callback' = IF execute_callback THEN goal_callback ELSE TRUE
    /\ UNCHANGED <<status, stamp, current_goal, next_goal, new_goal,
                   preempt_request, new_goal_preempt_request, execute_callback,
                   preempt_callback, need_to_terminate, lock_owner, notified,
                   wpc, goal, cpc, checked, preempt_delivered, cb_calls>>

\* lines 221-226
RegisterPreemptCallback ==
    /\ preempt_callback' = TRUE
    /\ UNCHANGED <<status, stamp, current_goal, next_goal, new_goal,
                   preempt_request, new_goal_preempt_request, execute_callback,
                   goal_callback, need_to_terminate, lock_owner, notified, wpc,
                   goal, cpc, checked, preempt_delivered, cb_calls>>

\* lines 96-102: __del__ sets the flag, then joins the worker
Teardown ==
    /\ need_to_terminate' = IF execute_callback THEN TRUE ELSE need_to_terminate
    /\ UNCHANGED <<status, stamp, current_goal, next_goal, new_goal,
                   preempt_request, new_goal_preempt_request, execute_callback,
                   goal_callback, preempt_callback, lock_owner, notified, wpc,
                   goal, cpc, checked, preempt_delivered, cb_calls>>

----------------------------------------------------------------------------
(* executeLoop: the worker thread.                                         *)

\* lines 304-309: the loop ends when the termination flag is set
WorkerTop ==
    /\ wpc = "top"
    /\ wpc' = IF need_to_terminate THEN "done" ELSE "acquire"
    /\ UNCHANGED <<status, stamp, current_goal, next_goal, new_goal,
                   preempt_request, new_goal_preempt_request, execute_callback,
                   goal_callback, preempt_callback, need_to_terminate,
                   lock_owner, notified, goal, cpc, checked, preempt_delivered,
                   cb_calls>>

\* line 312: with self.lock
WorkerAcquire ==
    /\ wpc = "acquire"
    /\ CanAcquire("worker")
    /\ lock_owner' = "worker"
    /\ wpc' = "locked"
    /\ UNCHANGED <<status, stamp, current_goal, next_goal, new_goal,
                   preempt_request, new_goal_preempt_request, execute_callback,
                   goal_callback, preempt_callback, need_to_terminate, notified,
                   goal, cpc, checked, preempt_delivered, cb_calls>>

\* A loop that calls the execute routine whether or not line 316 found a
\* new goal.
LockedSectionAlwaysExecutes(s) == IF is_active(s) THEN "fatal" ELSE "execute"

\* lines 313-321: where the worker goes from the locked section
LockedSectionTarget(s) ==
    IF is_active(s) THEN "fatal"
    ELSE IF is_new_goal_available(s) THEN "execute" ELSE "post"

\* lines 316-317: the slots after the locked section
LockedSectionSlots(s) ==
    IF ~is_active(s) /\ is_new_goal_available(s) THEN accept_new_goal(s) ELSE s

\* The execute routine called inside "with self.lock".
LockKeptForExecute == "worker"

\* lines 312-321: the end of "with self.lock" releases the lock
LockAfterLockedSection == "none"

\* lines 313-321
WorkerLockedSection ==
    /\ wpc = "locked"
    /\ Install(LockedSectionSlots(S))
    /\ wpc' = LockedSectionTarget(S)
    /\ goal' = IF LockedSectionTarget(S) = "execute" THEN AcceptResult(S)
               ELSE goal
    /\ checked' = IF LockedSectionTarget(S) = "execute" THEN FALSE ELSE checked
    /\ lock_owner' = LockAfterLockedSection
    /\ KeepHeld(LockedSectionSlots(S), stamp, preempt_delivered)
    /\ UNCHANGED <<execute_callback, goal_callback, preempt_callback,
                   need_to_terminate, notified, cpc, cb_calls>>

\* line 324: the execute routine asks is_preempt_requested() for the first time
ExecuteCheckPreempt ==
    /\ wpc = "execute"
    /\ ~checked
    /\ checked' = TRUE
    /\ UNCHANGED <<status, stamp, current_goal, next_goal, new_goal,
                   preempt_request, new_goal_preempt_request, execute_callback,
                   goal_callback, preempt_callback, need_to_terminate,
                   lock_owner, notified, wpc, goal, cpc, preempt_delivered,
                   cb_calls>>

\* line 324: the execute routine calls set_succeeded, set_aborted or set_preempted
ExecuteStatus(kind) ==
    /\ wpc = "execute"
    /\ CanAcquire("worker")
    /\ Install(StatusCall(kind, S))
    /\ UNCHANGED <<stamp, execute_callback, goal_callback, preempt_callback,
                   need_to_terminate, lock_owner, notified, wpc, goal, cpc,
                   checked, preempt_delivered, cb_calls>>

\* line 324: the execute routine returns
ExecuteReturn ==
    /\ wpc = "execute"
    /\ wpc' = "post"
    /\ UNCHANGED <<status, stamp, current_goal, next_goal, new_goal,
                   preempt_request, new_goal_preempt_request, execute_callback,
                   goal_callback, preempt_callback, need_to_terminate,
                   lock_owner, notified, goal, cpc, checked, preempt_delivered,
                   cb_calls>>

\* Line 327 testing for ACTIVE alone: a PREEMPTING goal is left as it is.
ForceAbortUnlessPreempting(s) ==
    IF get_goal(s.current_goal) /\ s.status[s.current_goal] = "ACTIVE"
    THEN SetAborted(s)
    ELSE s

\* A loop without lines 327-331.
LeaveActive(s) == s

\* lines 327-331: a goal left active is set to aborted
ForceAbort(s) == IF is_active(s) THEN SetAborted(s) ELSE s

\* lines 326-332: acquire the condition, force the abort, wait (the wait
\* gives the lock up)
WorkerPost ==
    /\ wpc = "post"
    /\ CanAcquire("worker")
    /\ Install(ForceAbort(S))
    /\ wpc' = "waiting"
    /\ UNCHANGED <<stamp, execute_callback, goal_callback, preempt_callback,
                   need_to_terminate, lock_owner, notified, goal, cpc, checked,
                   preempt_delivered, cb_calls>>

\* line 332: wait(loop_duration) ends when notified or after the timeout
WaitHasTimeout == TRUE

\* lines 332-333: the wait ends, takes the lock again, and releases it
WorkerWake ==
    /\ wpc = "waiting"
    /\ notified \/ WaitHasTimeout
    /\ CanAcquire("worker")
    /\ notified' = FALSE
    /\ wpc' = "top"
    /\ UNCHANGED <<status, stamp, current_goal, next_goal, new_goal,
                   preempt_request, new_goal_preempt_request, execute_callback,
                   goal_callback, preempt_callback, need_to_terminate,
                   lock_owner, goal, cpc, checked, preempt_delivered, cb_calls>>

----------------------------------------------------------------------------
(* The polling caller: accept_new_goal and the status operations called    *)
(* from the application thread of a server without an execute routine.     *)

\* lines 118-121: the availability check, inside "with self.lock"
CallerAcceptCheck ==
    /\ ~execute_callback
    /\ cpc = "idle"
    /\ CanAcquire("caller")
    /\ cpc' = IF AcceptAvailable(S) THEN "cancel" ELSE "idle"
    /\ UNCHANGED <<status, stamp, current_goal, next_goal, new_goal,
                   preempt_request, new_goal_preempt_request, execute_callback,
                   goal_callback, preempt_callback, need_to_terminate,
                   lock_owner, notified, wpc, goal, checked, preempt_delivered,
                   cb_calls>>

\* lines 124-140, one statement a step, the lock not held
AcceptStatement(pc, s) ==
    CASE pc = "cancel" -> AcceptCancelCurrent(s)
      [] pc = "promote" -> AcceptPromote(s)
      [] pc = "clear" -> AcceptClearNewGoal(s)
      [] pc = "propagate" -> AcceptPropagatePreempt(s)
      [] pc = "reset" -> AcceptResetNextPreempt(s)
      [] OTHER -> AcceptSetActive(s)

AcceptFollows(pc) ==
    CASE pc = "cancel" -> "promote"
      [] pc = "promote" -> "clear"
      [] pc = "clear" -> "propagate"
      [] pc = "propagate" -> "reset"
      [] pc = "reset" -> "activate"
      [] OTHER -> "idle"

CallerAcceptStep ==
    /\ cpc # "idle"
    /\ Install(AcceptStatement(cpc, S))
    /\ cpc' = AcceptFollows(cpc)
    /\ checked' = IF cpc = "activate" THEN FALSE ELSE checked
    /\ KeepHeld(AcceptStatement(cpc, S), stamp, preempt_delivered)
    /\ UNCHANGED <<execute_callback, goal_callback, preempt_callback,
                   need_to_terminate, lock_owner, notified, wpc, goal,
                   cb_calls>>

\* lines 169-209 called by the polling caller
CallerStatus(kind) ==
    /\ ~execute_callback
    /\ cpc = "idle"
    /\ CanAcquire("caller")
    /\ Install(StatusCall(kind, S))
    /\ UNCHANGED <<stamp, execute_callback, goal_callback, preempt_callback,
                   need_to_terminate, lock_owner, notified, wpc, goal, cpc,
                   checked, preempt_delivered, cb_calls>>

\* lines 151-156: the caller's first is_preempt_requested() after an accept
CallerCheckPreempt ==
    /\ ~execute_callback
    /\ cpc = "idle"
    /\ ~checked
    /\ checked' = TRUE
    /\ UNCHANGED <<status, stamp, current_goal, next_goal, new_goal,
                   preempt_request, new_goal_preempt_request, execute_callback,
                   goal_callback, preempt_callback, need_to_terminate,
                   lock_owner, notified, wpc, goal, cpc, preempt_delivered,
                   cb_calls>>

----------------------------------------------------------------------------

\* lines 70-93: __init__, with or without an execute callback
Init ==
    /\ status = [g \in Goals |-> "NONE"]
    /\ stamp = [g \in Goals |-> 0]
    /\ current_goal = NullHandle
    /\ next_goal = NullHandle
    /\ new_goal = FALSE
    /\ preempt_request = FALSE
    /\ new_goal_preempt_request = FALSE
    /\ execute_callback \in BOOLEAN
    /\ goal_callback = FALSE
    /\ preempt_callback = FALSE
    /\ need_to_terminate = FALSE
    /\ lock_owner = "none"
    /\ notified = FALSE
    /\ wpc = IF execute_callback THEN "top" ELSE "absent"
    /\ goal = NullHandle
    /\ cpc = "idle"
    /\ checked = FALSE
    /\ preempt_delivered = {}
    /\ cb_calls = {}

Next ==
    \/ \E g \in Goals, t \in Stamps, raiser \in Raisers :
           InternalGoalCallback(g, t, raiser)
    \/ \E g \in Goals : InternalPreemptCallback(g)
    \/ \E g \in Goals : TransportCancelRequested(g)
    \/ RegisterGoalCallback
    \/ RegisterPreemptCallback
    \/ Teardown
    \/ WorkerTop
    \/ WorkerAcquire
    \/ WorkerLockedSection
    \/ ExecuteCheckPreempt
    \/ \E kind \in StatusKinds : ExecuteStatus(kind)
    \/ ExecuteReturn
    \/ WorkerPost
    \/ WorkerWake
    \/ CallerAcceptCheck
    \/ CallerAcceptStep
    \/ \E kind \in StatusKinds : CallerStatus(kind)
    \/ CallerCheckPreempt

Spec == Init /\ [][Next]_vars

\* The threads are scheduled fairly: the worker is not starved.
WorkerNext ==
    \/ WorkerTop
    \/ WorkerAcquire
    \/ WorkerLockedSection
    \/ ExecuteCheckPreempt
    \/ \E kind \in StatusKinds : ExecuteStatus(kind)
    \/ ExecuteReturn
    \/ WorkerPost
    \/ WorkerWake

FairSpec == Spec /\ WF_vars(WorkerNext)

----------------------------------------------------------------------------
(* Properties.                                                             *)

ActiveGoals == {g \in Goals : status[g] \in Active}

\* C1: in every reachable state at most one goal handle has status ACTIVE
\* or PREEMPTING.
SingleActiveGoal == Cardinality(ActiveGoals) <= 1

\* A goal is being pursued and preempted while a later one waits in next.
SingleActiveGoalWitness ==
    \E g, h \in Goals :
        /\ current_goal = g /\ status[g] = "PREEMPTING"
        /\ next_goal = h /\ status[h] = "PENDING" /\ new_goal
        /\ \E k \in Goals : status[k] \in {"SUCCEEDED", "ABORTED"}

\* The step is the submission of goal g.
Submitted(g) == status[g] = "NONE" /\ status'[g] # "NONE"

\* The submitted stamp t is not past the stamp of current or of next.
StampNotPast(t) ==
    \/ current_goal # NullHandle /\ t <= stamp[current_goal]
    \/ next_goal # NullHandle /\ t <= stamp[next_goal]

\* What a rejection of goal g does.
RejectedEffect(g) ==
    /\ status'[g] = "PREEMPTED"
    /\ \A h \in Goals \ {g} : status'[h] = status[h]
    /\ UNCHANGED <<current_goal, next_goal, new_goal, preempt_request,
                   new_goal_preempt_request>>
    /\ cb_calls' = {}
    /\ lock_owner' = lock_owner

\* C2: a goal submitted with a stamp less than or equal to that of a non-null
\* current or next goal is rejected: its handle ends PREEMPTED, the slots, the
\* flags and every other status are unchanged, and no callback is invoked.
OlderGoalRejected ==
    [][\A g \in Goals, t \in Stamps, raiser \in Raisers :
           (Submitted(g) /\ StampNotPast(t)) =>
               (RejectedEffect(g) \/ ~InternalGoalCallback(g, t, raiser))]_vars

\* Goal 2 was submitted while goal 1, already finished, was the last goal
\* admitted, and was rejected.
OlderGoalRejectedWitness ==
    /\ current_goal = 1 /\ next_goal = 1 /\ status[1] = "SUCCEEDED"
    /\ status[2] = "PREEMPTED"
    /\ goal_callback /\ cb_calls = {}

\* What the admission of goal g does.
AdmittedEffect(g) ==
    /\ next_goal' = g
    /\ new_goal'
    /\ ~new_goal_preempt_request'
    /\ status'[g] = "PENDING"
    /\ (next_goal # NullHandle /\ next_goal # current_goal)
           => status'[next_goal] = "PREEMPTED"
    /\ (current_goal # NullHandle /\ status[current_goal] \in Active)
           => preempt_request'

\* C3: a goal submitted with a stamp past those of current and next becomes
\* next with new_goal set and new_goal_preempt_request cleared; a previous
\* next distinct from current is marked PREEMPTED; preempt_request is set if
\* the current goal is active.
NewerGoalAdmitted ==
    [][\A g \in Goals, t \in Stamps, raiser \in Raisers :
           (Submitted(g) /\ ~StampNotPast(t)) =>
               (AdmittedEffect(g) \/ ~InternalGoalCallback(g, t, raiser))]_vars

\* Goal 3 is next while goal 1 is active with a preempt requested, goal 2
\* having been cancelled.
NewerGoalAdmittedWitness ==
    /\ current_goal = 1 /\ status[1] \in Active /\ preempt_request
    /\ next_goal = 3 /\ status[3] = "PENDING" /\ new_goal
    /\ stamp[1] = 1 /\ stamp[3] = 3
    /\ status[2] = "PREEMPTED"

\* C4: a preempt token delivered for the goal held in next sets
\* new_goal_preempt_request, and once the worker accepted that goal
\* preempt_request is true from the acceptance until the execute routine's
\* first is_preempt_requested().
DeferredPreemptSeen ==
    [][/\ \A g \in Goals :
              (next_goal = g /\ current_goal # g /\ InternalPreemptCallback(g))
                  => new_goal_preempt_request'
       /\ (execute_callback' /\ wpc' = "execute" /\ ~checked'
              /\ goal' \in preempt_delivered') => preempt_request']_vars

\* The execute routine started on a goal that got its token while pending and
\* has not asked yet.
DeferredPreemptSeenWitness ==
    /\ wpc = "execute" /\ ~checked
    /\ goal # NullHandle /\ goal = current_goal
    /\ goal \in preempt_delivered
    /\ status[goal] = "ACTIVE"
    /\ preempt_request
    /\ \A h \in Goals \ {goal} : status[h] = "NONE"
    /\ ~preempt_callback

\* C5: no internal_goal_callback or internal_preempt_callback step runs
\* between the availability check of accept_new_goal and its return.
AcceptIsAtomic ==
    [][cpc # "idle" =>
           /\ ~(\E g \in Goals, t \in Stamps, raiser \in Raisers :
                    InternalGoalCallback(g, t, raiser))
           /\ ~(\E g \in Goals : InternalPreemptCallback(g))]_vars

\* C6: when the execute routine returned and left its goal ACTIVE or
\* PREEMPTING, the worker's next step sets that goal ABORTED and goes on to
\* wait; until then the goal stays as it is.
UnfinishedGoalAborted ==
    [][(wpc = "post" /\ goal # NullHandle /\ status[goal] \in Active) =>
           \/ wpc' = "post" /\ status'[goal] \in Active
           \/ wpc' = "waiting" /\ status'[goal] = "ABORTED"]_vars

\* The execute routine returned leaving its goal PREEMPTING.
UnfinishedGoalAbortedWitness ==
    /\ wpc = "post" /\ goal # NullHandle /\ goal = current_goal
    /\ status[goal] = "PREEMPTING"

WorkerExited == wpc \in {"done", "fatal"}

\* C7: once teardown set the termination flag, the worker loop eventually
\* exits.
WorkerExitsAfterTeardown ==
    (execute_callback /\ need_to_terminate) ~> WorkerExited

\* C8: after an admission ends, whether or not a user callback raised, the
\* lock is not held by the transport thread.
LockReleasedAfterAdmission == lock_owner # "transport"

\* C9: while the execute routine runs the worker does not hold the lock, so a
\* transport thread can acquire it.
ExecuteRunsUnlocked ==
    wpc = "execute" => (lock_owner # "worker" /\ CanAcquire("transport"))

\* A goal was admitted while the execute routine was running another.
ExecuteRunsUnlockedWitness ==
    /\ wpc = "execute" /\ goal = current_goal /\ goal # NullHandle
    /\ status[goal] \in Active
    /\ new_goal /\ next_goal # current_goal /\ preempt_request

\* C10: with an execute routine and no teardown, every submitted goal
\* eventually reaches a terminal status.
EveryGoalTerminates ==
    \A g \in Goals :
        (execute_callback /\ status[g] \in {"PENDING"} \cup Active)
            ~> (status[g] \in Terminal \/ need_to_terminate)

NoCallbackWithExecute ==
    execute_callback => (~goal_callback /\ ~preempt_callback /\ cb_calls = {})

\* C12, amended: in a server with an execute routine no goal callback is
\* ever registered, and no admission invokes a goal callback.
NoGoalCallbackWithExecute ==
    execute_callback => (~goal_callback /\ "goal" \notin cb_calls)

\* In a server with an execute routine, the admission of a second goal
\* while the first was active invoked the preempt callback and no other.
NoGoalCallbackWithExecuteWitness ==
    /\ execute_callback /\ preempt_callback /\ ~goal_callback
    /\ cb_calls = {"preempt"}
    /\ new_goal /\ next_goal # NullHandle /\ next_goal # current_goal
    /\ status[next_goal] = "PENDING"
    /\ current_goal # NullHandle /\ status[current_goal] \in Active

\* C13: accept_new_goal called while new_goal is false or next is null
\* returns no goal and leaves current, next, the three flags and every
\* status as they are; the polling caller returns from the check of line 119
\* without running a statement after it.
AcceptUnavailableIsNoOp ==
    /\ []((~new_goal \/ next_goal = NullHandle) =>
              (accept_new_goal(S) = S /\ AcceptResult(S) = NullHandle))
    /\ [][((~new_goal \/ next_goal = NullHandle) /\ cpc = "idle")
              => (cpc' = "idle" \/ ~CallerAcceptCheck)]_vars

\* The polling caller is free to call accept_new_goal while the goal it
\* accepted is active with a preempt requested and no new goal is available.
AcceptUnavailableIsNoOpWitness ==
    /\ ~execute_callback /\ cpc = "idle" /\ lock_owner = "none"
    /\ ~new_goal /\ next_goal # NullHandle
    /\ current_goal = next_goal /\ status[current_goal] \in Active
    /\ preempt_request /\ ~new_goal_preempt_request

\* C14: every submitted goal that neither current nor next refers to has a
\* terminal status, and a goal that leaves the slots while PENDING, ACTIVE
\* or PREEMPTING is PREEMPTED by the step that drops it.
DroppedGoalsAreTerminal ==
    /\ [](\A g \in Goals :
              (status[g] # "NONE" /\ g \notin Held(S))
                  => status[g] \in Terminal)
    /\ [][\A g \in Goals :
              (g \in Held(S) /\ g # current_goal' /\ g # next_goal'
                   /\ status[g] \notin Terminal)
                  => status'[g] = "PREEMPTED"]_vars

\* The polling caller is about to replace goal 1, which it cancelled while
\* active, by goal 3; goal 2 was bumped from next.
DroppedGoalsAreTerminalWitness ==
    /\ cpc = "promote" /\ preempt_request
    /\ current_goal = 1 /\ status[1] = "PREEMPTED"
    /\ status[2] = "PREEMPTED"
    /\ next_goal = 3 /\ status[3] = "PENDING"

\* The step is made inside accept_new_goal, at the statement pc of the
\* polling caller or in the locked section of the worker.
InAcceptNewGoal(pc) ==
    (wpc = "locked" /\ wpc' = "execute") \/ (cpc = pc /\ cpc' # pc)

\* C15: current changes only inside accept_new_goal, to the goal held in
\* next, which is PENDING then; a goal becomes ACTIVE only inside
\* accept_new_goal, from PENDING, as the current goal, and no goal becomes
\* PENDING again; the execute routine starts only on the goal the same
\* step accepted.  A goal is submitted once, so it is promoted, made ACTIVE
\* and executed at most once.
PromotedOnce ==
    [][/\ current_goal' # current_goal =>
              /\ current_goal' = next_goal
              /\ status[next_goal] = "PENDING"
              /\ InAcceptNewGoal("promote")
              /\ execute_callback => status'[current_goal'] = "ACTIVE"
       /\ \A g \in Goals :
              /\ (status'[g] = "ACTIVE" /\ status[g] # "ACTIVE") =>
                     /\ status[g] = "PENDING"
                     /\ current_goal' = g
                     /\ InAcceptNewGoal("activate")
              /\ status'[g] = "PENDING" => status[g] \in {"NONE", "PENDING"}
       /\ (wpc' = "execute" /\ wpc # "execute") =>
              /\ goal' # NullHandle /\ goal' = current_goal'
              /\ current_goal' # current_goal
              /\ status[goal'] = "PENDING" /\ status'[goal'] = "ACTIVE"]_vars

\* The execute routine starts on goal 2, just accepted, after goal 1 was
\* executed and set SUCCEEDED.
PromotedOnceWitness ==
    /\ wpc = "execute" /\ ~checked
    /\ goal = 2 /\ current_goal = 2 /\ status[2] = "ACTIVE"
    /\ status[1] = "SUCCEEDED"

\* C16: whenever no accept_new_goal call is under way, new_goal is true if
\* and only if next holds a goal and that goal is not the current one.
NewGoalIffNextWaits ==
    cpc = "idle" =>
        (new_goal <=> (next_goal # NullHandle /\ next_goal # current_goal))

\* C17: the step of accept_new_goal that runs line 134 leaves
\* preempt_request equal to what new_goal_preempt_request was, the step that
\* runs line 135 leaves new_goal_preempt_request false, and when the call
\* ends preempt_request is false unless a preempt token was delivered for
\* the accepted goal.
PreemptDoesNotCarryOver ==
    [][/\ InAcceptNewGoal("propagate")
              => preempt_request' = new_goal_preempt_request
       /\ InAcceptNewGoal("reset") => ~new_goal_preempt_request'
       /\ InAcceptNewGoal("activate")
              => (~preempt_request' \/ current_goal' \in preempt_delivered')
      ]_vars

\* C18: a preempt delivery leaves the statuses, current, next and new_goal
\* unchanged; for a token naming current it sets preempt_request, leaves
\* new_goal_preempt_request, and invokes at most the preempt callback; for a
\* token naming a next distinct from current it sets
\* new_goal_preempt_request, leaves preempt_request and invokes no callback;
\* for any other token it changes neither flag and invokes no callback.
PreemptDeliveryFrame ==
    [][\A g \in Goals :
           InternalPreemptCallback(g) =>
               /\ UNCHANGED <<status, current_goal, next_goal, new_goal>>
               /\ g = current_goal =>
                      /\ preempt_request'
                      /\ UNCHANGED new_goal_preempt_request
                      /\ cb_calls' \subseteq {"preempt"}
               /\ (g # current_goal /\ g = next_goal) =>
                      /\ new_goal_preempt_request'
                      /\ UNCHANGED preempt_request
                      /\ cb_calls' = {}
               /\ (g # current_goal /\ g # next_goal) =>
                      /\ UNCHANGED <<preempt_request, new_goal_preempt_request>>
                      /\ cb_calls' = {}]_vars

\* The only goal submitted is active, held by both slots, and a preempt
\* token for it invoked the preempt callback.
PreemptDeliveryFrameWitness ==
    /\ preempt_callback /\ cb_calls = {"preempt"}
    /\ current_goal # NullHandle /\ next_goal = current_goal
    /\ status[current_goal] \in Active
    /\ current_goal \in preempt_delivered
    /\ preempt_request /\ ~new_goal_preempt_request
    /\ \A h \in Goals \ {current_goal} : status[h] = "NONE"

\* C19: in a server with an execute routine the worker never reaches the
\* fatal branch of line 313: whenever it is at the top of an iteration, in
\* the locked section before the test, or waiting, the current goal is
\* neither ACTIVE nor PREEMPTING; and it leaves the loop only with the
\* termination flag set.
FatalBranchUnreachable ==
    execute_callback =>
        /\ wpc # "fatal"
        /\ (wpc \in {"top", "acquire", "locked", "waiting"}
               /\ current_goal # NullHandle)
               => status[current_goal] \notin Active
        /\ wpc = "done" => need_to_terminate

\* The worker is about to test for an active goal: the goal it ran last
\* ended ABORTED with a preempt requested, and the goal waiting in next has
\* a deferred preempt.
FatalBranchUnreachableWitness ==
    /\ wpc = "locked" /\ new_goal
    /\ current_goal # NullHandle /\ status[current_goal] = "ABORTED"
    /\ preempt_request /\ new_goal_preempt_request
    /\ next_goal # current_goal /\ status[next_goal] = "PENDING"

\* C20: when current and next hold different goals, the stamp of next is
\* past the stamp of current; and a goal that replaces another in current,
\* or in next, has a stamp past that of the goal it replaces.
StampsMonotone ==
    /\ []((current_goal # NullHandle /\ next_goal # NullHandle
               /\ next_goal # current_goal)
              => stamp[next_goal] > stamp[current_goal])
    /\ [][/\ (current_goal # NullHandle /\ current_goal' # current_goal)
                 => stamp'[current_goal'] > stamp[current_goal]
          /\ (next_goal # NullHandle /\ next_goal' # next_goal)
                 => stamp'[next_goal'] > stamp[next_goal]]_vars

\* Goal 1 was executed, goal 2 (stamp 2) replaced it in current and is
\* active, goal 3 (stamp 3) waits in next.
StampsMonotoneWitness ==
    /\ status[1] = "SUCCEEDED"
    /\ current_goal = 2 /\ stamp[2] = 2 /\ status[2] \in Active
    /\ next_goal = 3 /\ stamp[3] = 3 /\ status[3] = "PENDING"

====
